---------------------------- MODULE Spec2Model ----------------------------
(***************************************************************************)
(* Model of aid::core::Result<Ok, Err> (include/aid/core/result.hpp) and   *)
(* of aid::mpsc::MpscQueue<T> (include/aid/mpsc/mpsc_queue.hpp).           *)
(*                                                                         *)
(* Result is modelled at Result<int, int>, the instantiation the tests     *)
(* use for the chaining combinators.  A std::optional<int> is the empty    *)
(* sequence (disengaged) or a one-element sequence (engaged).  Moving an   *)
(* int out of an engaged optional (std::move of its content) copies it and   *)
(* leaves the optional engaged; only an assignment of std::optional{}      *)
(* disengages it.  Dereferencing a disengaged optional is undefined        *)
(* behaviour: the model lets it yield any int or crash the process.        *)
(***************************************************************************)
EXTENDS Integers, Sequences, FiniteSets, Bags, TLC

VARIABLES
    r,        \* the Result object the operations are called on (Oke, Erre)
    pc,       \* "run", "exit" (std::exit(1) after a diagnostic), "crash" (UB),
              \* "hang" (a call that never returns)
    out,      \* what the last operation returned
    diag,     \* the line the last operation wrote to std::clog ("" if none)
    last,     \* the last member call on r: name, arguments, r before the call
    link,     \* the call whose returned temporary r now is (a call chain)
    taken,    \* on the object r: value() / err() has returned its payload
    fresh,    \* r is the temporary of the last call and nothing was called on it
    depth,    \* length of the call chain that produced r
    Q,        \* MpscQueue::Q, front first
    Mut,      \* MpscQueue::Mut: 0 when free, else the thread that owns it
    tpc,      \* per thread: where it is inside push / pop ("idle" outside)
    sent,     \* per producer: how many of its values it has handed to push
    entered,  \* values in the order their push executed Q.push under the lock
    popped,   \* values in the order successful pops returned them
    res,      \* the Result the consumer's last pop returned
    fails,    \* pops that found the queue empty since the last successful pop
    joined    \* the consumer waits for all producers before its first pop

rvars == <<r, pc, out, diag, last, link, taken, fresh, depth>>
qvars == <<Q, Mut, tpc, sent, entered, popped, res, fails, joined>>
vars == <<r, pc, out, diag, last, link, taken, fresh, depth,
          Q, Mut, tpc, sent, entered, popped, res, fails, joined>>

---------------------------------------------------------------------------
(* Bounds *)

MaxVal == 3
MaxChain == 1
MaxStack == 3

Val == 1..MaxVal

---------------------------------------------------------------------------
(* std::optional<int> and the two slots of a Result *)

None == <<>>
Some(v) == <<v>>
Opt == {None} \cup {Some(v) : v \in Val}

Obj(o, e) == [Oke |-> o, Erre |-> e]
Consumed == Obj(None, None)

isOk(self) == self.Oke # None
isErr(self) == self.Erre # None

(* What a member call can leave behind: the object after the call, whether  *)
(* the process still runs, the returned value, the functions it invoked in  *)
(* order, the diagnostic written, and whether a disengaged optional was     *)
(* dereferenced.                                                            *)
NoRet == [kind |-> "none", val |-> 0, res |-> Consumed, b |-> FALSE]
ValRet(v) == [kind |-> "val", val |-> v, res |-> Consumed, b |-> FALSE]
ResRet(o) == [kind |-> "res", val |-> 0, res |-> o, b |-> FALSE]
BoolRet(b) == [kind |-> "bool", val |-> 0, res |-> Consumed, b |-> b]

Returns(self, ret, inv, ub) ==
    [self |-> self, pc |-> "run", ret |-> ret, inv |-> inv, diag |-> "", ub |-> ub]
Exits(self, msg, inv, ub) ==
    [self |-> self, pc |-> "exit", ret |-> NoRet, inv |-> inv, diag |-> msg, ub |-> ub]
Crashes(self) ==
    [self |-> self, pc |-> "crash", ret |-> NoRet, inv |-> <<>>, diag |-> "", ub |-> TRUE]

Hangs(self) ==
    [self |-> self, pc |-> "hang", ret |-> NoRet, inv |-> <<>>, diag |-> "", ub |-> TRUE]

(* Faulty variant: the constructor without its two checks. *)
Result_unchecked(ok_, er_) == [pc |-> "run", obj |-> Obj(ok_, er_), diag |-> ""]

(* Result(std::optional<Ok>, std::optional<Err>) *)
Result(ok_, er_) ==
    IF ok_ # None /\ er_ # None
    THEN [pc |-> "exit", obj |-> Consumed,
          diag |-> "Trying to construct a Result with both an Ok and Err value."]
    ELSE IF ok_ = None /\ er_ = None
    THEN [pc |-> "exit", obj |-> Consumed,
          diag |-> "Trying to construct a Result without an Ok or an Err value."]
    ELSE [pc |-> "run", obj |-> Obj(ok_, er_), diag |-> ""]

(* ok<Ok, Err>(value) and err<Ok, Err>(value) *)
ok(value_) == Result(Some(value_), None)
err(value_) == Result(None, Some(value_))

(* A member that returns a Result built by the constructor c. *)
Built(self, c, inv, ub) ==
    IF c.pc = "run" THEN Returns(self, ResRet(c.obj), inv, ub)
    ELSE Exits(self, c.diag, inv, ub)

(* Result &operator=(Result &&other); same is this == &other *)
MoveAssign(self, other, same) ==
    IF ~same THEN Obj(other.Oke, other.Erre) ELSE self

(* Result(Result &&other): *this = std::move(other) on empty members *)
MoveConstruct(other) == MoveAssign(Consumed, other, FALSE)

(* bool operator==(const Result &rhs) const *)
Equals(self, rhs) == self.Oke = rhs.Oke /\ self.Erre = rhs.Erre

(* bool operator!=(const Result &rhs) const: return rhs != *this, which is *)
(* operator!= again with the operands swapped, frame upon frame.  frames    *)
(* counts the frames on the stack.  The recursion has no base case: it      *)
(* ends when the stack is exhausted (a crash), or, compiled as a jump,      *)
(* never; being without side effects it is undefined behaviour, so a build  *)
(* may also return either bool.                                             *)
RECURSIVE NotEqualsFrom(_, _, _)
NotEqualsFrom(self, rhs, frames) ==
    IF frames >= MaxStack
    THEN {Crashes(self), Hangs(self)}
         \cup {Returns(self, BoolRet(b), <<>>, TRUE) : b \in BOOLEAN}
    ELSE {[o EXCEPT !.self = self] : o \in NotEqualsFrom(rhs, self, frames + 1)}

NotEquals(self, rhs) == NotEqualsFrom(self, rhs, 1)

---------------------------------------------------------------------------
(* The functions the tests pass to the combinators *)

MapFuncs == {"twice", "thrice"}
BindFuncs == {"sq", "er"}

ApplyMap(F, x) == IF F = "twice" THEN x * 2 ELSE x * 3

sq(x) == ok(x * x)
er(x) == err(x)
ApplyBind(F, x) == IF F = "sq" THEN sq(x) ELSE er(x)

(* *Erre: the stored error, or, on a disengaged optional, any int *)
ReadErre(self) ==
    IF self.Erre # None THEN {[v |-> self.Erre[1], ub |-> FALSE]}
    ELSE {[v |-> g, ub |-> TRUE] : g \in Val}
CrashOnErre(self) == IF self.Erre = None THEN {Crashes(self)} ELSE {}

---------------------------------------------------------------------------
(* The members of Result.  Each gives the set of outcomes of one call. *)

(* Faulty variant: map that applies F to the stored error as well. *)
map_touchesErr(self, F) ==
    IF isOk(self)
    THEN {Built(self, Result(Some(ApplyMap(F, self.Oke[1])), None), <<F>>, FALSE)}
    ELSE IF isErr(self)
    THEN {Built(self, Result(None, Some(ApplyMap(F, self.Erre[1]))), <<F>>, FALSE)}
    ELSE {Exits(self, "Trying to apply a map function to a Result that has no value and no error.",
                <<>>, FALSE)}

(* auto map(Func &&F) *)
map(self, F) ==
    IF isOk(self)
    THEN {Built(self, Result(Some(ApplyMap(F, self.Oke[1])), None), <<F>>, FALSE)}
    ELSE IF isErr(self)
    THEN {Built(self, Result(None, Some(self.Erre[1])), <<>>, FALSE)}
    ELSE {Exits(self, "Trying to apply a map function to a Result that has no value and no error.",
                <<>>, FALSE)}

(* auto mapErr(Func &&F) *)
mapErr(self, F) ==
    IF isOk(self)
    THEN {Built(self, Result(Some(self.Oke[1]), None), <<>>, FALSE)}
    ELSE IF isErr(self)
    THEN {Built(self, Result(None, Some(ApplyMap(F, self.Erre[1]))), <<F>>, FALSE)}
    ELSE {Exits(self, "Trying to apply a mapErr function to a Result that has no value and no error.",
                <<>>, FALSE)}

(* auto mapOr(U &&Default, Func &&F) *)
mapOr(self, Default, F) ==
    IF isOk(self)
    THEN {Returns(self, ValRet(ApplyMap(F, self.Oke[1])), <<F>>, FALSE)}
    ELSE {Returns(self, ValRet(Default), <<>>, FALSE)}

(* auto mapOrElse(DefaultFunc &&Df, Func &&F) *)
mapOrElse(self, Df, F) ==
    IF isOk(self)
    THEN {Returns(self, ValRet(ApplyMap(F, self.Oke[1])), <<F>>, FALSE)}
    ELSE {Returns(self, ValRet(ApplyMap(Df, e.v)), <<Df>>, e.ub) : e \in ReadErre(self)}
         \cup CrashOnErre(self)

(* Faulty variant: and_ that keeps its own success value instead of returning Res. *)
and_keepsOwn(self, Res) ==
    IF isOk(self)
    THEN {Built(self, ok(self.Oke[1]), <<>>, FALSE)}
    ELSE {Built(self, err(e.v), <<>>, e.ub) : e \in ReadErre(self)}
         \cup CrashOnErre(self)

(* auto and_(Result<U, Err> &&Res) *)
and_(self, Res) ==
    IF isOk(self)
    THEN {Returns(self, ResRet(MoveConstruct(Res)), <<>>, FALSE)}
    ELSE {Built(self, err(e.v), <<>>, e.ub) : e \in ReadErre(self)}
         \cup CrashOnErre(self)

(* Faulty variant: andThen that also runs F on a failure. *)
andThen_noShortCircuit(self, F) ==
    IF isOk(self)
    THEN {Built(self, ApplyBind(F, self.Oke[1]), <<F>>, FALSE)}
    ELSE {Built(self, ApplyBind(F, e.v), <<F>>, e.ub) : e \in ReadErre(self)}
         \cup CrashOnErre(self)

(* auto andThen(Func &&F) *)
andThen(self, F) ==
    IF isOk(self)
    THEN {Built(self, ApplyBind(F, self.Oke[1]), <<F>>, FALSE)}
    ELSE {Built(self, err(e.v), <<>>, e.ub) : e \in ReadErre(self)}
         \cup CrashOnErre(self)

(* auto contains(const U &x) *)
contains(self, x) ==
    {Returns(self, BoolRet(isOk(self) /\ self.Oke[1] = x), <<>>, FALSE)}

(* auto containsErr(const U &x) *)
containsErr(self, x) ==
    {Returns(self, BoolRet(isErr(self) /\ self.Erre[1] = x), <<>>, FALSE)}

(* auto ore(Result<Ok, U> &&Res) *)
ore(self, Res) ==
    IF isOk(self)
    THEN {Built(self, ok(self.Oke[1]), <<>>, FALSE)}
    ELSE {Returns(self, ResRet(MoveConstruct(Res)), <<>>, FALSE)}

(* Faulty variant: orElse that runs F on a success too. *)
orElse_always(self, F) ==
    IF isOk(self)
    THEN {Built(self, ApplyBind(F, self.Oke[1]), <<F>>, FALSE)}
    ELSE {Built(self, ApplyBind(F, e.v), <<F>>, e.ub) : e \in ReadErre(self)}
         \cup CrashOnErre(self)

(* auto orElse(Func &&F) *)
orElse(self, F) ==
    IF isOk(self)
    THEN {Built(self, Result(Some(self.Oke[1]), None), <<>>, FALSE)}
    ELSE {Built(self, ApplyBind(F, e.v), <<F>>, e.ub) : e \in ReadErre(self)}
         \cup CrashOnErre(self)

(* Faulty variant: value() that forgets to reset Oke. *)
value_noReset(self) ==
    IF self.Oke = None
    THEN {Exits(self, "Trying to get the value of a result which doesn't have a value",
                <<>>, FALSE)}
    ELSE {Returns(self, ValRet(self.Oke[1]), <<>>, FALSE)}

(* Ok value() *)
value(self) ==
    IF self.Oke = None
    THEN {Exits(self, "Trying to get the value of a result which doesn't have a value",
                <<>>, FALSE)}
    ELSE {Returns(Obj(None, self.Erre), ValRet(self.Oke[1]), <<>>, FALSE)}

(* Ok valueOr(Ok Default) *)
valueOr(self, Default) ==
    IF self.Oke = None
    THEN {Returns(self, ValRet(Default), <<>>, FALSE)}
    ELSE {Returns(Obj(None, self.Erre), ValRet(self.Oke[1]), <<>>, FALSE)}

(* auto expect(const char *msg) *)
expect(self, msg) ==
    IF isOk(self)
    THEN {Returns(self, ValRet(self.Oke[1]), <<>>, FALSE)}
    ELSE {Exits(self, msg, <<>>, FALSE)}

(* auto expectErr(const char *msg) *)
expectErr(self, msg) ==
    IF isErr(self)
    THEN {Returns(self, ValRet(self.Erre[1]), <<>>, FALSE)}
    ELSE {Exits(self, msg, <<>>, FALSE)}

(* Err err(), the member *)
Result_err(self) ==
    IF self.Erre = None
    THEN {Exits(self, "Trying to get the error of a result which doesn't have an error",
                <<>>, FALSE)}
    ELSE {Returns(Obj(self.Oke, None), ValRet(self.Erre[1]), <<>>, FALSE)}

(* Err errOr(Err default_value) *)
errOr(self, default_value) ==
    IF self.Erre = None
    THEN {Returns(self, ValRet(default_value), <<>>, FALSE)}
    ELSE {Returns(Obj(self.Oke, None), ValRet(self.Erre[1]), <<>>, FALSE)}

---------------------------------------------------------------------------
(* MpscQueue<T> at T = int.  Producer p pushes the distinct tags            *)
(* Tag(p, 1), Tag(p, 2), ... in that order.                                 *)

NumProducers == 2
MaxPush == 2
MaxFails == 2

Producers == 1..NumProducers
Consumer == NumProducers + 1
Tag(p, i) == (p - 1) * MaxPush + i
ProducerOf(t) == ((t - 1) \div MaxPush) + 1

(* enum MpscError { Sender, Receiver, EmptyQueue } *)
EmptyQueue == 2

(* Faulty variant: push at the front. *)
push_front(q, value_) == <<value_>> \o q

(* Q.push(std::move(value)) inside push *)
push(q, value_) == Append(q, value_)

(* Faulty variant: pop that forgets Q.pop(). *)
pop_noRemove(q) ==
    IF q # <<>>
    THEN [Q |-> q, ret |-> ok(Head(q))]
    ELSE [Q |-> q, ret |-> err(EmptyQueue)]

(* Faulty variant: pop that reports MpscError::Receiver on an empty queue. *)
pop_wrongError(q) ==
    IF q # <<>>
    THEN [Q |-> Tail(q), ret |-> ok(Head(q))]
    ELSE [Q |-> q, ret |-> err(EmptyQueue - 1)]

(* The body of pop under the lock: the queue it leaves and what it returns *)
pop(q) ==
    IF q # <<>>
    THEN [Q |-> Tail(q), ret |-> ok(Head(q))]
    ELSE [Q |-> q, ret |-> err(EmptyQueue)]

(* Every producer thread has made all its pushes and returned from the last. *)
AllDone == \A p \in Producers : sent[p] = MaxPush /\ tpc[p] = "idle"

QInit ==
    /\ Q = <<>>
    /\ Mut = 0
    /\ tpc = [t \in Producers \cup {Consumer} |-> "idle"]
    /\ sent = [p \in Producers |-> 0]
    /\ entered = <<>>
    /\ popped = <<>>
    /\ res = Consumed
    /\ fails = 0

(* push: std::scoped_lock lock(Mut) *)
PushLock(p) ==
    /\ tpc[p] = "idle"
    /\ sent[p] < MaxPush
    /\ Mut = 0
    /\ Mut' = p
    /\ tpc' = [tpc EXCEPT ![p] = "locked"]
    /\ UNCHANGED <<Q, sent, entered, popped, res, fails, joined, rvars>>

(* push: Q.push(std::move(value)) *)
PushBody(p) ==
    /\ tpc[p] = "locked"
    /\ Q' = push(Q, Tag(p, sent[p] + 1))
    /\ entered' = Append(entered, Tag(p, sent[p] + 1))
    /\ sent' = [sent EXCEPT ![p] = sent[p] + 1]
    /\ tpc' = [tpc EXCEPT ![p] = "pushed"]
    /\ UNCHANGED <<Mut, popped, res, fails, joined, rvars>>

(* push: the lock's destructor on return *)
PushUnlock(p) ==
    /\ tpc[p] = "pushed"
    /\ Mut' = 0
    /\ tpc' = [tpc EXCEPT ![p] = "idle"]
    /\ UNCHANGED <<Q, sent, entered, popped, res, fails, joined, rvars>>

(* pop: std::scoped_lock lock(Mut) *)
PopLock ==
    /\ tpc[Consumer] = "idle"
    /\ fails < MaxFails
    /\ joined => AllDone
    /\ Mut = 0
    /\ Mut' = Consumer
    /\ tpc' = [tpc EXCEPT ![Consumer] = "locked"]
    /\ UNCHANGED <<Q, sent, entered, popped, res, fails, joined, rvars>>

(* pop: the body, up to the construction of the returned Result *)
PopBody ==
    /\ tpc[Consumer] = "locked"
    /\ LET o == pop(Q) IN
        /\ Q' = o.Q
        /\ res' = o.ret.obj
        /\ popped' = IF isOk(o.ret.obj) THEN Append(popped, o.ret.obj.Oke[1]) ELSE popped
    /\ fails' = IF Q = <<>> THEN fails + 1 ELSE 0
    /\ tpc' = [tpc EXCEPT ![Consumer] = "ret"]
    /\ UNCHANGED <<Mut, sent, entered, joined, rvars>>

(* pop: the lock's destructor on return *)
PopUnlock ==
    /\ tpc[Consumer] = "ret"
    /\ Mut' = 0
    /\ tpc' = [tpc EXCEPT ![Consumer] = "idle"]
    /\ UNCHANGED <<Q, sent, entered, popped, res, fails, joined, rvars>>

---------------------------------------------------------------------------
(* The Result state machine: one object r, one action per member. *)

NoCall ==
    [op |-> "none", F |-> "", Df |-> "", arg |-> Consumed, d |-> 0, pre |-> Consumed,
     chained |-> FALSE, preTaken |-> [ok |-> FALSE, err |-> FALSE],
     inv |-> <<>>, ub |-> FALSE]
NotTaken == [ok |-> FALSE, err |-> FALSE]

(* The Results a caller can hold: built by ok() or err(), or emptied by value() / err() *)
Held == {Obj(Some(v), None) : v \in Val} \cup {Obj(None, Some(v)) : v \in Val} \cup {Consumed}

RInit ==
    /\ r \in Held \ {Consumed}
    /\ pc = "run"
    /\ out = NoRet
    /\ diag = ""
    /\ last = NoCall
    /\ link = NoCall
    /\ taken = NotTaken
    /\ fresh = FALSE
    /\ depth = 0

(* r.op(...) with outcome o *)
Call(op, F, Df, arg, d, o) ==
    /\ pc = "run"
    /\ r' = o.self
    /\ pc' = o.pc
    /\ out' = o.ret
    /\ diag' = o.diag
    /\ last' = [op |-> op, F |-> F, Df |-> Df, arg |-> arg, d |-> d, pre |-> r,
                chained |-> fresh, preTaken |-> taken, inv |-> o.inv, ub |-> o.ub]
    /\ taken' = IF op = "value" /\ o.ret.kind = "val" THEN [taken EXCEPT !.ok = TRUE]
                ELSE IF op = "err" /\ o.ret.kind = "val" THEN [taken EXCEPT !.err = TRUE]
                ELSE taken
    /\ fresh' = FALSE
    /\ UNCHANGED <<link, depth, qvars>>

(* A new object built by the constructor result c from the slots (ok_, er_)  *)
(* takes the place of r.                                                    *)
Construct(op, ok_, er_, c) ==
    /\ pc = "run"
    /\ r' = c.obj
    /\ pc' = c.pc
    /\ out' = NoRet
    /\ diag' = c.diag
    /\ last' = [NoCall EXCEPT !.op = op, !.arg = Obj(ok_, er_)]
    /\ link' = NoCall
    /\ taken' = NotTaken
    /\ fresh' = FALSE
    /\ depth' = 0
    /\ UNCHANGED qvars

MakeOk == \E v \in Val : Construct("core::ok", Some(v), None, ok(v))
MakeErr == \E v \in Val : Construct("core::err", None, Some(v), err(v))
MakeRaw == \E o \in Opt, e \in Opt : Construct("Result", o, e, Result(o, e))

(* The Result the last call returned becomes the object of the next call. *)
Adopt ==
    /\ pc = "run"
    /\ out.kind = "res"
    /\ depth < MaxChain
    /\ r' = MoveConstruct(out.res)
    /\ out' = NoRet
    /\ link' = last
    /\ taken' = NotTaken
    /\ fresh' = TRUE
    /\ depth' = depth + 1
    /\ UNCHANGED <<pc, diag, last, qvars>>

(* r = std::move(y), and r = std::move(r) *)
Assign ==
    /\ pc = "run"
    /\ \E y \in Held, same \in BOOLEAN :
        /\ same => y = r
        /\ r' = MoveAssign(r, y, same)
        /\ last' = [NoCall EXCEPT !.op = "assign", !.arg = y, !.pre = r,
                                  !.preTaken = taken]
        /\ taken' = IF same THEN taken ELSE NotTaken
    /\ out' = NoRet
    /\ fresh' = FALSE
    /\ UNCHANGED <<pc, diag, link, depth, qvars>>

IsOk == Call("isOk", "", "", Consumed, 0, Returns(r, BoolRet(isOk(r)), <<>>, FALSE))
IsErr == Call("isErr", "", "", Consumed, 0, Returns(r, BoolRet(isErr(r)), <<>>, FALSE))
Eq == \E y \in Held : Call("eq", "", "", y, 0, Returns(r, BoolRet(Equals(r, y)), <<>>, FALSE))
Ne == \E y \in Held : \E o \in NotEquals(r, y) : Call("ne", "", "", y, 0, o)
Map == \E F \in MapFuncs : \E o \in map(r, F) : Call("map", F, "", Consumed, 0, o)
MapErr == \E F \in MapFuncs : \E o \in mapErr(r, F) : Call("mapErr", F, "", Consumed, 0, o)
MapOr == \E F \in MapFuncs, d \in Val : \E o \in mapOr(r, d, F) : Call("mapOr", F, "", Consumed, d, o)
MapOrElse ==
    \E Df \in MapFuncs, F \in MapFuncs : \E o \in mapOrElse(r, Df, F) :
        Call("mapOrElse", F, Df, Consumed, 0, o)
And == \E y \in Held : \E o \in and_(r, y) : Call("and_", "", "", y, 0, o)
AndThen == \E F \in BindFuncs : \E o \in andThen(r, F) : Call("andThen", F, "", Consumed, 0, o)
Contains == \E x \in Val : \E o \in contains(r, x) : Call("contains", "", "", Consumed, x, o)
ContainsErr == \E x \in Val : \E o \in containsErr(r, x) : Call("containsErr", "", "", Consumed, x, o)
Ore == \E y \in Held : \E o \in ore(r, y) : Call("ore", "", "", y, 0, o)
OrElse == \E F \in BindFuncs : \E o \in orElse(r, F) : Call("orElse", F, "", Consumed, 0, o)
Value == \E o \in value(r) : Call("value", "", "", Consumed, 0, o)
ValueOr == \E d \in Val : \E o \in valueOr(r, d) : Call("valueOr", "", "", Consumed, d, o)
Expect == \E o \in expect(r, "msg") : Call("expect", "", "", Consumed, 0, o)
ExpectErr == \E o \in expectErr(r, "msg") : Call("expectErr", "", "", Consumed, 0, o)
Err == \E o \in Result_err(r) : Call("err", "", "", Consumed, 0, o)
ErrOr == \E d \in Val : \E o \in errOr(r, d) : Call("errOr", "", "", Consumed, d, o)

---------------------------------------------------------------------------
(* Specifications *)

Init == RInit /\ QInit /\ joined = FALSE

Next ==
    \/ Value \/ ValueOr \/ Expect \/ ExpectErr \/ Err \/ ErrOr
    \/ Map \/ MapErr \/ MapOr \/ MapOrElse
    \/ And \/ AndThen \/ Ore \/ OrElse
    \/ Contains \/ ContainsErr
    \/ IsOk \/ IsErr \/ Eq \/ Ne
    \/ MakeOk \/ MakeErr \/ MakeRaw \/ Assign

Spec == Init /\ [][Next]_vars

(* Call chains: each call is made on the temporary the call before returned. *)
ChainNext ==
    \/ Map \/ MapErr \/ And \/ AndThen \/ Ore \/ OrElse
    \/ Adopt

ChainSpec == Init /\ [][ChainNext]_vars

QueueInit ==
    /\ QInit
    /\ joined \in BOOLEAN
    /\ r = Consumed /\ pc = "run" /\ out = NoRet /\ diag = "" /\ last = NoCall
    /\ link = NoCall /\ taken = NotTaken /\ fresh = FALSE /\ depth = 0

QueueNext ==
    \/ \E p \in Producers : PushLock(p)
    \/ \E p \in Producers : PushBody(p)
    \/ \E p \in Producers : PushUnlock(p)
    \/ PopLock
    \/ PopBody
    \/ PopUnlock

QueueSpec == QueueInit /\ [][QueueNext]_vars

---------------------------------------------------------------------------
(* Claims about MpscQueue, checked under QueueSpec *)

Range(s) == {s[i] : i \in DOMAIN s}
BagOfSeq(s) == [v \in Range(s) |-> Cardinality({i \in DOMAIN s : s[i] = v})]

(* The values whose Q.push has executed, from the producers' own counters *)
SentValues ==
    {Tag(x[1], x[2]) : x \in {y \in Producers \X (1..MaxPush) : y[2] <= sent[y[1]]}}

(* C1: strict FIFO under concurrency.  The values popped so far, followed  *)
(* by the values still queued, are exactly the values in the order their   *)
(* pushes ran under the lock; a pop that has just succeeded returned the    *)
(* earliest entered value not popped before; and two values of the same     *)
(* producer are popped in the order that producer pushed them.              *)
C1_StrictFifo ==
    /\ popped \o Q = entered
    /\ (tpc[Consumer] = "ret" /\ fails = 0) =>
           /\ Len(popped) >= 1
           /\ res = Obj(Some(entered[Len(popped)]), None)
    /\ \A i, j \in DOMAIN popped :
           (i < j /\ ProducerOf(popped[i]) = ProducerOf(popped[j])) => popped[i] < popped[j]

(* Two producers interleaved their pushes and the consumer popped across the interleaving. *)
C1_Witness ==
    /\ Len(popped) >= 3
    /\ ProducerOf(popped[1]) = ProducerOf(popped[3])
    /\ ProducerOf(popped[1]) # ProducerOf(popped[2])
    /\ ~joined

(* C2: no loss and no duplication.  In every state the bag of popped       *)
(* values plus the bag of queued values is the bag of values whose push     *)
(* has run, each once; and when the consumer starts only after every        *)
(* producer has ended, at its first failed pop it has popped exactly the    *)
(* pushed values, each once, in as many successful pops as values pushed.   *)
C2_NoLossNoDup ==
    /\ BagOfSeq(popped) (+) BagOfSeq(Q) = SetToBag(SentValues)
    /\ (joined /\ fails >= 1) =>
           /\ Range(popped) = SentValues
           /\ Len(popped) = Cardinality(SentValues)
           /\ Q = <<>>

(* Every producer pushed, then the consumer drained to its first failure. *)
C2_Witness ==
    /\ joined
    /\ fails = 1
    /\ \A p \in Producers : sent[p] >= 1
    /\ Len(popped) >= NumProducers

(* C3: empty-queue report.  A pop that finds the queue empty is not held   *)
(* back by the missing data, returns err(EmptyQueue), leaves the queue      *)
(* empty while it still holds the lock and has released the lock once it    *)
(* has returned; every pop of a run of pops on an empty queue does so.      *)
C3_EmptyReport ==
    /\ (tpc[Consumer] = "locked" /\ Q = <<>>) => ENABLED PopBody
    /\ fails >= 1 =>
           /\ res = Obj(None, Some(EmptyQueue))
           /\ tpc[Consumer] = "ret" => (Q = <<>> /\ Mut = Consumer)
           /\ tpc[Consumer] = "idle" => Mut # Consumer

(* A drained queue popped twice more with nothing pushed in between. *)
C3_Witness ==
    /\ fails >= 2
    /\ tpc[Consumer] = "idle"
    /\ Len(popped) >= 1
    /\ Q = <<>>

---------------------------------------------------------------------------
(* Claims about single calls on a Result, checked under Spec *)

Exclusive(x) == isOk(x) # isErr(x)
Constructors == {"core::ok", "core::err", "Result"}
Resetting == {"value", "valueOr", "err", "errOr"}

(* The raw constructor ends the process when both slots or neither slot is populated. *)
RawConstructorChecks ==
    (last.op = "Result" /\ isOk(last.arg) = isErr(last.arg)) =>
        (pc = "exit" /\ diag # "")

(* C4 as stated: exactly one of isOk(), isErr() holds of r in every state  *)
(* the running process reaches, whatever members were called on it, and    *)
(* the raw constructor ends the process on both or neither.                *)
C4_AlwaysExclusive ==
    /\ pc = "run" => Exclusive(r)
    /\ RawConstructorChecks

(* C4, amended: isOk() and isErr() are never both true; exactly one holds  *)
(* right after construction, and every member keeps it so except value()   *)
(* and valueOr() on a success and err() and errOr() on a failure, which     *)
(* empty the populated slot and leave both false; move assignment gives r   *)
(* the slots of its source; the raw constructor ends the process on both    *)
(* or neither.                                                              *)
C4_ExclusiveUntilReset ==
    /\ ~(isOk(r) /\ isErr(r))
    /\ pc = "run" =>
        /\ last.op \in Constructors \cup {"none"} => Exclusive(r)
        /\ (last.op \notin Constructors \cup Resetting \cup {"none", "assign"}
              /\ Exclusive(last.pre)) => Exclusive(r)
        /\ (last.op = "assign" /\ Exclusive(last.arg)) => Exclusive(r)
        /\ (last.op \in {"value", "valueOr"} /\ Exclusive(last.pre)) =>
               (Exclusive(r) <=> ~isOk(last.pre))
        /\ (last.op \in {"err", "errOr"} /\ Exclusive(last.pre)) =>
               (Exclusive(r) <=> ~isErr(last.pre))
    /\ RawConstructorChecks

(* value() has returned the payload of a success and left r with neither slot populated. *)
C4_Witness ==
    /\ pc = "run"
    /\ last.op = "value"
    /\ out.kind = "val"
    /\ ~isOk(r) /\ ~isErr(r)

(* C5: move-consumption.  A value() on an object whose value() has already *)
(* returned its payload ends the process with the diagnostic and returns    *)
(* nothing; likewise a second err().                                        *)
C5_SecondExtractionFatal ==
    /\ (last.op = "value" /\ last.preTaken.ok) =>
           (pc = "exit" /\ out = NoRet /\ diag # "")
    /\ (last.op = "err" /\ last.preTaken.err) =>
           (pc = "exit" /\ out = NoRet /\ diag # "")

(* value() was called a second time on the same success Result. *)
C5_Witness ==
    /\ last.op = "value"
    /\ last.preTaken.ok
    /\ pc = "exit"

(* The slot a call moved its payload out of, if any *)
ExtractedSlot(c) ==
    CASE c.op \in {"expect", "valueOr"} -> IF isOk(c.pre) THEN "ok" ELSE "none"
      [] c.op \in {"expectErr", "errOr"} -> IF isErr(c.pre) THEN "err" ELSE "none"
      [] c.op \in {"map", "mapErr", "mapOrElse", "andThen", "orElse"} ->
            IF isOk(c.pre) THEN "ok" ELSE IF isErr(c.pre) THEN "err" ELSE "none"
      [] c.op \in {"mapOr", "ore"} -> IF isOk(c.pre) THEN "ok" ELSE "none"
      [] c.op = "and_" -> IF isOk(c.pre) THEN "none" ELSE IF isErr(c.pre) THEN "err" ELSE "none"
      [] OTHER -> "none"

(* C6: every extracting member other than value() / err() leaves the slot  *)
(* it moved the payload out of empty, so that isOk() (isErr()) is false     *)
(* once it has returned.                                                    *)
C6_ExtractionConsumes ==
    pc = "run" =>
        /\ ExtractedSlot(last) = "ok" => ~isOk(r)
        /\ ExtractedSlot(last) = "err" => ~isErr(r)

NeedsOk == {"value", "expect"}
NeedsErr == {"err", "expectErr"}
NeedsEither == {"map", "mapErr", "mapOrElse", "andThen", "and_", "ore", "orElse"}

(* C7: fail-fast on misuse.  value() / expect() without a success,         *)
(* err() / expectErr() without a failure, and map, mapErr, mapOrElse,       *)
(* andThen, and_, ore, orElse on a Result with both slots empty each end    *)
(* the process with a diagnostic, return nothing and read no empty slot.    *)
C7_FailFast ==
    ( \/ last.op \in NeedsOk /\ ~isOk(last.pre)
      \/ last.op \in NeedsErr /\ ~isErr(last.pre)
      \/ last.op \in NeedsEither /\ last.pre = Consumed )
    => (pc = "exit" /\ diag # "" /\ out = NoRet /\ ~last.ub)

(* C9: and / or short-circuit.  x.and_(y) is y when x is a success and a   *)
(* failure holding x's failure value when x is a failure; x.ore(y) is a     *)
(* success holding x's success value when x is a success and y when x is a  *)
(* failure.                                                                 *)
C9_AndOrShortCircuit ==
    /\ (last.op = "and_" /\ isOk(last.pre)) =>
           (pc = "run" /\ out.kind = "res" /\ Equals(out.res, last.arg))
    /\ (last.op = "and_" /\ isErr(last.pre) /\ ~isOk(last.pre)) =>
           (pc = "run" /\ out.kind = "res" /\ Equals(out.res, Obj(None, last.pre.Erre)))
    /\ (last.op = "ore" /\ isOk(last.pre)) =>
           (pc = "run" /\ out.kind = "res" /\ Equals(out.res, Obj(last.pre.Oke, None)))
    /\ (last.op = "ore" /\ isErr(last.pre) /\ ~isOk(last.pre)) =>
           (pc = "run" /\ out.kind = "res" /\ Equals(out.res, last.arg))

(* ok(v).and_(err(e)) has returned. *)
C9_Witness ==
    /\ last.op = "and_"
    /\ isOk(last.pre)
    /\ isErr(last.arg)
    /\ out.kind = "res"

---------------------------------------------------------------------------
(* Claims about call chains, checked under ChainSpec *)

(* The last call has just returned a Result, which out holds. *)
Returned == pc = "run" /\ out.kind = "res"

(* link then last is the chain x.first(F1).second(F2) on x *)
Chain(first, F1, second, F2, x) ==
    /\ link.op = first /\ link.F = F1 /\ link.pre = x
    /\ last.op = second /\ last.F = F2 /\ last.chained /\ ~fresh

(* C8: andThen short-circuit.  On a success holding v, andThen(F) returns  *)
(* F(v) and invokes F once; on a failure holding e it returns a failure     *)
(* holding e and invokes nothing; so a chain of two andThen calls invokes   *)
(* nothing after the first failure and returns it, and the four chains of   *)
(* sq and er give ok(x^4), err(x^2), err(x), err(x).                        *)
C8_AndThenShortCircuit ==
    /\ (last.op = "andThen" /\ ~fresh /\ isOk(last.pre)) =>
           /\ Returned
           /\ Equals(out.res, ApplyBind(last.F, last.pre.Oke[1]).obj)
           /\ last.inv = <<last.F>>
    /\ (last.op = "andThen" /\ ~fresh /\ isErr(last.pre) /\ ~isOk(last.pre)) =>
           /\ Returned
           /\ Equals(out.res, Obj(None, last.pre.Erre))
           /\ last.inv = <<>>
    /\ \A x \in Val :
        /\ Chain("andThen", "sq", "andThen", "sq", ok(x).obj) =>
               Returned /\ Equals(out.res, ok(x * x * x * x).obj)
        /\ Chain("andThen", "sq", "andThen", "er", ok(x).obj) =>
               Returned /\ Equals(out.res, err(x * x).obj)
        /\ Chain("andThen", "er", "andThen", "sq", ok(x).obj) =>
               Returned /\ Equals(out.res, err(x).obj) /\ last.inv = <<>>
        /\ Chain("andThen", "sq", "andThen", "sq", err(x).obj) =>
               Returned /\ Equals(out.res, err(x).obj)
                        /\ last.inv = <<>> /\ link.inv = <<>>

(* ok(x).andThen(er).andThen(sq) has returned: the first call failed. *)
C8_Witness ==
    /\ \E x \in Val : Chain("andThen", "er", "andThen", "sq", ok(x).obj)
    /\ Returned

(* C10: orElse recovery chain.  On a success holding v, orElse(F) returns  *)
(* a success holding v and invokes nothing; on a failure holding e it       *)
(* returns F(e) and invokes F once; and the four chains of sq and er give   *)
(* ok(x), ok(x), ok(x^2), err(x).                                           *)
C10_OrElseRecovery ==
    /\ (last.op = "orElse" /\ ~fresh /\ isOk(last.pre)) =>
           /\ Returned
           /\ Equals(out.res, Obj(last.pre.Oke, None))
           /\ last.inv = <<>>
    /\ (last.op = "orElse" /\ ~fresh /\ isErr(last.pre) /\ ~isOk(last.pre)) =>
           /\ Returned
           /\ Equals(out.res, ApplyBind(last.F, last.pre.Erre[1]).obj)
           /\ last.inv = <<last.F>>
    /\ \A x \in Val :
        /\ Chain("orElse", "sq", "orElse", "sq", ok(x).obj) =>
               Returned /\ Equals(out.res, ok(x).obj)
        /\ Chain("orElse", "er", "orElse", "sq", ok(x).obj) =>
               Returned /\ Equals(out.res, ok(x).obj)
        /\ Chain("orElse", "sq", "orElse", "er", err(x).obj) =>
               Returned /\ Equals(out.res, ok(x * x).obj)
        /\ Chain("orElse", "er", "orElse", "er", err(x).obj) =>
               Returned /\ Equals(out.res, err(x).obj)

(* err(x).orElse(sq).orElse(er) has returned: the first call recovered. *)
C10_Witness ==
    /\ \E x \in Val : Chain("orElse", "sq", "orElse", "er", err(x).obj)
    /\ Returned

---------------------------------------------------------------------------
(* Claims about mapOrElse, map and mapErr, checked under Spec *)

(* C11: mapOrElse exhaustiveness.  On every Result, mapOrElse(Df, F)       *)
(* invokes exactly one of the two functions, once: F on the success value   *)
(* when isOk() holds, and otherwise Df on the failure value; it returns     *)
(* what that function returned.                                             *)
C11_MapOrElseExhaustive ==
    last.op = "mapOrElse" =>
        IF isOk(last.pre)
        THEN /\ pc = "run"
             /\ last.inv = <<last.F>>
             /\ out = ValRet(ApplyMap(last.F, last.pre.Oke[1]))
        ELSE /\ pc = "run"
             /\ last.inv = <<last.Df>>
             /\ isErr(last.pre) /\ ~last.ub
             /\ out = ValRet(ApplyMap(last.Df, last.pre.Erre[1]))

(* C12: map and mapErr touch only their own slot.  On a failure holding   *)
(* e, map(F) returns a failure holding e and does not invoke F; on a       *)
(* success holding v it returns a success holding F(v).  On a success       *)
(* holding v, mapErr(F) returns a success holding v and does not invoke F;  *)
(* on a failure holding e it returns a failure holding F(e).                *)
C12_MapOwnSlotOnly ==
    /\ (last.op = "map" /\ isErr(last.pre) /\ ~isOk(last.pre)) =>
           /\ pc = "run" /\ out.kind = "res"
           /\ out.res = Obj(None, last.pre.Erre)
           /\ last.inv = <<>>
    /\ (last.op = "map" /\ isOk(last.pre)) =>
           /\ pc = "run" /\ out.kind = "res"
           /\ out.res = Obj(Some(ApplyMap(last.F, last.pre.Oke[1])), None)
           /\ last.inv = <<last.F>>
    /\ (last.op = "mapErr" /\ isOk(last.pre)) =>
           /\ pc = "run" /\ out.kind = "res"
           /\ out.res = Obj(last.pre.Oke, None)
           /\ last.inv = <<>>
    /\ (last.op = "mapErr" /\ isErr(last.pre) /\ ~isOk(last.pre)) =>
           /\ pc = "run" /\ out.kind = "res"
           /\ out.res = Obj(None, Some(ApplyMap(last.F, last.pre.Erre[1])))
           /\ last.inv = <<last.F>>

(* err(e).map(F) has returned. *)
C12_Witness ==
    /\ last.op = "map"
    /\ isErr(last.pre) /\ ~isOk(last.pre)
    /\ out.kind = "res"
    /\ pc = "run"

---------------------------------------------------------------------------
(* Claims about the comparison operators, checked under Spec *)

(* C13: inequality is the negation of equality.  The evaluation of a != b  *)
(* terminates and returns true exactly when a == b returns false, a == b    *)
(* holding iff the success slots are equal and the failure slots are equal. *)
C13_NotEqualNegatesEqual ==
    last.op = "ne" =>
        /\ pc = "run"
        /\ ~last.ub
        /\ out = BoolRet(~(last.pre.Oke = last.arg.Oke /\ last.pre.Erre = last.arg.Erre))

===========================================================================
